---- MODULE Spec2Model ----
(***************************************************************************)
(* A model of octocrab's list-issues query builder (api/issues/list.rs),   *)
(* the pull-request merge check (api/pulls.rs) and the error type          *)
(* (error.rs).                                                             *)
(*                                                                         *)
(* Option<T> is a sequence of length 0 (None) or 1 (Some).  A JSON value   *)
(* is a record of one fixed shape, so that any two of them are comparable. *)
(***************************************************************************)
EXTENDS Integers, Sequences, FiniteSets, TLC

VARIABLES
    crab,       \* the Octocrab client: its base URL
    issues,     \* the IssueHandler: owner, repo
    pulls,      \* the PullRequestHandler: owner, repo
    builders,   \* builder id -> ListIssuesBuilder
    phase,      \* builder id -> "building" | "awaiting" | "done"
    given,      \* builder id -> field -> the values the caller passed, last one kept
    out,        \* builder id -> the serializations taken since the last setter call
    sreqs,      \* builder id -> the requests its send handed to the transport
    sresp,      \* builder id -> the response the transport returned to its send
    sres,       \* builder id -> the result of its send
    mpc,        \* is_merged: "idle" | "awaiting" | "done"
    mpr,        \* is_merged: the pull request number of the current call
    mreqs,      \* is_merged: the requests the current call handed to the transport
    mresp,      \* is_merged: the response the transport returned to the current call
    mres        \* is_merged: the result of the current call

vars == <<crab, issues, pulls, builders, phase, given, out, sreqs, sresp, sres,
          mpc, mpr, mreqs, mresp, mres>>

clientVars == <<crab, issues, pulls>>
sendVars == <<phase, sreqs, sresp, sres>>
mergeVars == <<mpc, mpr, mreqs, mresp, mres>>

-----------------------------------------------------------------------------
(* Bounds *)

MaxPage == 2          \* page numbers 1..MaxPage
MaxPr == 1            \* pull request numbers 1..MaxPr, and 101
MaxSerialize == 2     \* serializations taken of an unmodified builder
MaxSetterCalls == 2   \* fields set over the two builders of SpecTwo
MaxFilters == 1       \* fields set on the builder of SpecCalls

-----------------------------------------------------------------------------
(* Option and JSON values *)

None == <<>>
Some(v) == <<v>>

JNull == [t |-> "null", s |-> "", n |-> 0, a |-> <<>>]
JStr(s) == [t |-> "str", s |-> s, n |-> 0, a |-> <<>>]
JNum(n) == [t |-> "num", s |-> "", n |-> n, a |-> <<>>]
JArr(a) == [t |-> "arr", s |-> "", n |-> 0, a |-> a]

-----------------------------------------------------------------------------
(* params: State, Direction, issues::Sort, issues::Filter<T> *)

States == {"Open", "Closed"}
Sorts == {"Comments", "Created"}
Directions == {"Ascending", "Descending"}

SerState(s) == JStr(IF s = "Open" THEN "open" ELSE IF s = "Closed" THEN "closed" ELSE "all")
SerSort(s) == JStr(IF s = "Comments" THEN "comments" ELSE IF s = "Created" THEN "created" ELSE "updated")
SerDirection(d) == JStr(IF d = "Ascending" THEN "asc" ELSE "desc")

Matches(v) == [tag |-> "Matches", val |-> v]
FilterAny(dflt) == [tag |-> "Any", val |-> dflt]
FilterNone(dflt) == [tag |-> "None", val |-> dflt]

\* Filter<u64> and Filter<&str>: the wildcard and none sentinels, else the bare value
SerFilterU64(f) ==
    IF f.tag = "Any" THEN JStr("*")
    ELSE IF f.tag = "None" THEN JStr("none")
    ELSE JNum(f.val)

SerFilterStr(f) ==
    IF f.tag = "Any" THEN JStr("*")
    ELSE IF f.tag = "None" THEN JStr("none")
    ELSE JStr(f.val)

\* impl Into<Filter<T>>: a bare T becomes Matches(T), a Filter stays what it is
Raw(v) == [raw |-> TRUE, val |-> v, filter |-> Matches(v)]
AsFilter(f) == [raw |-> FALSE, val |-> f.val, filter |-> f]
IntoFilter(x) == IF x.raw THEN Matches(x.val) ELSE x.filter

\* per_page takes an Into<u8>, which only a u8 is; page takes an Into<u32>, which
\* a u8, a u16 and a u32 are, each widened without loss
IntoU8(n) == n % 256
IntoU32(n) == n

MilestoneInputs == {Raw(1234), AsFilter(FilterAny(0)), AsFilter(FilterNone(0))}
AssigneeInputs == {Raw("ferris"), AsFilter(FilterAny("")), AsFilter(FilterNone(""))}
CreatorInputs == {"octocrab"}
MentionedInputs == {"octocat"}
LabelsInputs == {<<"help wanted", "good first issue">>}
PerPageInputs == {100}
PageInputs == 1..MaxPage

-----------------------------------------------------------------------------
(* ListIssuesBuilder *)

BuilderIds == {1, 2}

\* ListIssuesBuilder::new: the handler, and every field None
NewBuilder(handler) ==
    [handler |-> handler,
     state |-> None, milestone |-> None, assignee |-> None, creator |-> None,
     mentioned |-> None, labels |-> None, sort |-> None, direction |-> None,
     per_page |-> None, page |-> None]

\* what the caller has passed to the setters of a builder: nothing yet
NothingGiven ==
    [state |-> None, milestone |-> None, assignee |-> None, creator |-> None,
     mentioned |-> None, labels |-> None, sort |-> None, direction |-> None,
     per_page |-> None, page |-> None]

\* the setters take the builder by value: it is still being built, not yet sent
Building(b) == phase[b] = "building"

Milestone(b, x) ==
    /\ Building(b)
    /\ builders' = [builders EXCEPT ![b].milestone = Some(IntoFilter(x))]
    /\ given' = [given EXCEPT ![b].milestone = Some(x)]
    /\ out' = [out EXCEPT ![b] = <<>>]
    /\ UNCHANGED <<clientVars, sendVars, mergeVars>>

Assignee(b, x) ==
    /\ Building(b)
    /\ builders' = [builders EXCEPT ![b].assignee = Some(IntoFilter(x))]
    /\ given' = [given EXCEPT ![b].assignee = Some(x)]
    /\ out' = [out EXCEPT ![b] = <<>>]
    /\ UNCHANGED <<clientVars, sendVars, mergeVars>>

Creator(b, x) ==
    /\ Building(b)
    /\ builders' = [builders EXCEPT ![b].creator = Some(x)]
    /\ given' = [given EXCEPT ![b].creator = Some(x)]
    /\ out' = [out EXCEPT ![b] = <<>>]
    /\ UNCHANGED <<clientVars, sendVars, mergeVars>>

\* mentioned as a copy of creator that still assigns creator
MentionedSetsCreator(b, x) ==
    /\ Building(b)
    /\ builders' = [builders EXCEPT ![b].creator = Some(x)]
    /\ given' = [given EXCEPT ![b].mentioned = Some(x)]
    /\ out' = [out EXCEPT ![b] = <<>>]
    /\ UNCHANGED <<clientVars, sendVars, mergeVars>>

Mentioned(b, x) ==
    /\ Building(b)
    /\ builders' = [builders EXCEPT ![b].mentioned = Some(x)]
    /\ given' = [given EXCEPT ![b].mentioned = Some(x)]
    /\ out' = [out EXCEPT ![b] = <<>>]
    /\ UNCHANGED <<clientVars, sendVars, mergeVars>>

\* state as a setter that keeps a value already set
StateKeepsFirst(b, x) ==
    /\ Building(b)
    /\ builders' = [builders EXCEPT ![b].state = IF @ = None THEN Some(x) ELSE @]
    /\ given' = [given EXCEPT ![b].state = Some(x)]
    /\ out' = [out EXCEPT ![b] = <<>>]
    /\ UNCHANGED <<clientVars, sendVars, mergeVars>>

State(b, x) ==
    /\ Building(b)
    /\ builders' = [builders EXCEPT ![b].state = Some(x)]
    /\ given' = [given EXCEPT ![b].state = Some(x)]
    /\ out' = [out EXCEPT ![b] = <<>>]
    /\ UNCHANGED <<clientVars, sendVars, mergeVars>>

Labels(b, x) ==
    /\ Building(b)
    /\ builders' = [builders EXCEPT ![b].labels = Some(x)]
    /\ given' = [given EXCEPT ![b].labels = Some(x)]
    /\ out' = [out EXCEPT ![b] = <<>>]
    /\ UNCHANGED <<clientVars, sendVars, mergeVars>>

Sort(b, x) ==
    /\ Building(b)
    /\ builders' = [builders EXCEPT ![b].sort = Some(x)]
    /\ given' = [given EXCEPT ![b].sort = Some(x)]
    /\ out' = [out EXCEPT ![b] = <<>>]
    /\ UNCHANGED <<clientVars, sendVars, mergeVars>>

Direction(b, x) ==
    /\ Building(b)
    /\ builders' = [builders EXCEPT ![b].direction = Some(x)]
    /\ given' = [given EXCEPT ![b].direction = Some(x)]
    /\ out' = [out EXCEPT ![b] = <<>>]
    /\ UNCHANGED <<clientVars, sendVars, mergeVars>>

PerPage(b, x) ==
    /\ Building(b)
    /\ builders' = [builders EXCEPT ![b].per_page = Some(IntoU8(x))]
    /\ given' = [given EXCEPT ![b].per_page = Some(x)]
    /\ out' = [out EXCEPT ![b] = <<>>]
    /\ UNCHANGED <<clientVars, sendVars, mergeVars>>

Page(b, x) ==
    /\ Building(b)
    /\ builders' = [builders EXCEPT ![b].page = Some(IntoU32(x))]
    /\ given' = [given EXCEPT ![b].page = Some(x)]
    /\ out' = [out EXCEPT ![b] = <<>>]
    /\ UNCHANGED <<clientVars, sendVars, mergeVars>>

\* the derived Serialize with per_page renamed to camel case
SerializeRenamed(bld) ==
    << <<"state", IF bld.state = None THEN JNull ELSE SerState(bld.state[1])>>,
       <<"milestone", IF bld.milestone = None THEN JNull ELSE SerFilterU64(bld.milestone[1])>>,
       <<"assignee", IF bld.assignee = None THEN JNull ELSE SerFilterStr(bld.assignee[1])>>,
       <<"creator", IF bld.creator = None THEN JNull ELSE JStr(bld.creator[1])>>,
       <<"mentioned", IF bld.mentioned = None THEN JNull ELSE JStr(bld.mentioned[1])>>,
       <<"labels", IF bld.labels = None THEN JNull ELSE JArr(bld.labels[1])>>,
       <<"sort", IF bld.sort = None THEN JNull ELSE SerSort(bld.sort[1])>>,
       <<"direction", IF bld.direction = None THEN JNull ELSE SerDirection(bld.direction[1])>>,
       <<"perPage", IF bld.per_page = None THEN JNull ELSE JNum(bld.per_page[1])>>,
       <<"page", IF bld.page = None THEN JNull ELSE JNum(bld.page[1])>> >>

\* #[derive(serde::Serialize)]: every field but the skipped handler, as declared,
\* each under its name, None as null
Serialize(bld) ==
    << <<"state", IF bld.state = None THEN JNull ELSE SerState(bld.state[1])>>,
       <<"milestone", IF bld.milestone = None THEN JNull ELSE SerFilterU64(bld.milestone[1])>>,
       <<"assignee", IF bld.assignee = None THEN JNull ELSE SerFilterStr(bld.assignee[1])>>,
       <<"creator", IF bld.creator = None THEN JNull ELSE JStr(bld.creator[1])>>,
       <<"mentioned", IF bld.mentioned = None THEN JNull ELSE JStr(bld.mentioned[1])>>,
       <<"labels", IF bld.labels = None THEN JNull ELSE JArr(bld.labels[1])>>,
       <<"sort", IF bld.sort = None THEN JNull ELSE SerSort(bld.sort[1])>>,
       <<"direction", IF bld.direction = None THEN JNull ELSE SerDirection(bld.direction[1])>>,
       <<"per_page", IF bld.per_page = None THEN JNull ELSE JNum(bld.per_page[1])>>,
       <<"page", IF bld.page = None THEN JNull ELSE JNum(bld.page[1])>> >>

\* a serialization of the builder by reference, as serde_json::to_value in the
\* test: the fields the derived Serialize emits, in the order it emits them; the
\* builder is left as it was
ToValue(b) ==
    /\ Building(b)
    /\ Len(out[b]) < MaxSerialize
    /\ out' = [out EXCEPT ![b] = Append(@, Serialize(builders[b]))]
    /\ UNCHANGED <<clientVars, builders, given, sendVars, mergeVars>>

-----------------------------------------------------------------------------
(* Error, and the results of the operations *)

NoBody == [shape |-> "none", id |-> 0]

ErrGitHub(source) == [kind |-> "GitHub", source |-> source, json |-> NoBody, bool |-> FALSE]
ErrUrl(source) == [kind |-> "Url", source |-> source, json |-> NoBody, bool |-> FALSE]
ErrHttp(source) == [kind |-> "Http", source |-> source, json |-> NoBody, bool |-> FALSE]
\* the Json variant without the field that keeps the payload
ErrJsonNoPayload(source, json) == [kind |-> "Json", source |-> source, json |-> NoBody, bool |-> FALSE]

ErrJson(source, json) == [kind |-> "Json", source |-> source, json |-> json, bool |-> FALSE]

OkBool(v) == [kind |-> "Ok", source |-> "", json |-> NoBody, bool |-> v]
OkPage(body) == [kind |-> "Ok", source |-> "", json |-> body, bool |-> FALSE]
NoResult == [kind |-> "None", source |-> "", json |-> NoBody, bool |-> FALSE]

-----------------------------------------------------------------------------
(* Octocrab: the base URL, the transport and the decoding of a response *)

GoodBase == "https://api.github.com"
Bases == {GoodBase, "mailto:octocrab"}
Identities == {[owner |-> "rust-lang", repo |-> "rust"], [owner |-> "octocat", repo |-> "hello"]}

\* the status codes and the bodies the transport may answer with
NoContent == 204
Statuses == {200, NoContent, 404, 500}
Bodies == {[shape |-> "page", id |-> 1], [shape |-> "error", id |-> 1],
           [shape |-> "other", id |-> 1]}
Responses == [status : Statuses, body : Bodies]
PageResponse == [status |-> 200, body |-> [shape |-> "page", id |-> 1]]

\* Octocrab::absolute_url: the base joined with the route, or the parse error
AbsoluteUrl(base, route) ==
    IF base = GoodBase THEN [ok |-> TRUE, url |-> base \o route, err |-> ""]
    ELSE [ok |-> FALSE, url |-> "", err |-> "RelativeUrlWithCannotBeABaseBase"]

Request(url, route, query) == [method |-> "GET", url |-> url, route |-> route, query |-> query]

\* the decoding of a response into a Page: the remote error of a failure status,
\* the page, or the decode error with the body it could not decode
FromResponse(resp) ==
    IF resp.status >= 400 /\ resp.body.shape = "error" THEN ErrGitHub("remote")
    ELSE IF resp.body.shape = "page" THEN OkPage(resp.body)
    ELSE ErrJson("decode", resp.body)

-----------------------------------------------------------------------------
(* ListIssuesBuilder::send *)

IssuesRoute(h) == "/repos/" \o h.owner \o "/" \o h.repo \o "/issues"

\* send up to the await: the route, the absolute URL, the request handed over
Send(b) ==
    /\ Building(b)
    /\ LET route == IssuesRoute(builders[b].handler)
           u == AbsoluteUrl(crab.base, route)
       IN IF u.ok
          THEN /\ sreqs' = [sreqs EXCEPT ![b] =
                               Append(@, Request(u.url, route, Some(Serialize(builders[b]))))]
               /\ phase' = [phase EXCEPT ![b] = "awaiting"]
               /\ sres' = sres
          ELSE /\ sres' = [sres EXCEPT ![b] = ErrUrl(u.err)]
               /\ phase' = [phase EXCEPT ![b] = "done"]
               /\ sreqs' = sreqs
    /\ UNCHANGED <<clientVars, builders, given, out, sresp, mergeVars>>

\* the transport answers: the response is decoded into the result
SendResponse(b, resp) ==
    /\ phase[b] = "awaiting"
    /\ sresp' = [sresp EXCEPT ![b] = Some(resp)]
    /\ sres' = [sres EXCEPT ![b] = FromResponse(resp)]
    /\ phase' = [phase EXCEPT ![b] = "done"]
    /\ UNCHANGED <<clientVars, builders, given, out, sreqs, mergeVars>>

\* the transport fails: the failure is the result
SendTransportError(b) ==
    /\ phase[b] = "awaiting"
    /\ sres' = [sres EXCEPT ![b] = ErrHttp("transport")]
    /\ phase' = [phase EXCEPT ![b] = "done"]
    /\ UNCHANGED <<clientVars, builders, given, out, sreqs, sresp, mergeVars>>

-----------------------------------------------------------------------------
(* PullRequestHandler::is_merged *)

Digit(d) ==
    CASE d = 0 -> "0" [] d = 1 -> "1" [] d = 2 -> "2" [] d = 3 -> "3" [] d = 4 -> "4"
      [] d = 5 -> "5" [] d = 6 -> "6" [] d = 7 -> "7" [] d = 8 -> "8" [] d = 9 -> "9"

\* the Display of a u64
RECURSIVE Decimal(_)
Decimal(n) == IF n < 10 THEN Digit(n) ELSE Decimal(n \div 10) \o Digit(n % 10)

PullNumbers == (1..MaxPr) \cup {101}

\* the route with the owner and the repository in each other's place
MergeRouteSwapped(h, pr) ==
    "/repos/" \o h.repo \o "/" \o h.owner \o "/pulls/" \o Decimal(pr) \o "/merge"

MergeRoute(h, pr) ==
    "/repos/" \o h.owner \o "/" \o h.repo \o "/pulls/" \o Decimal(pr) \o "/merge"

\* is_merged handing the request over before it looks at the URL error
IsMergedSendsFirst(pr) ==
    /\ mpc \in {"idle", "done"}
    /\ mpr' = pr
    /\ mresp' = None
    /\ LET route == MergeRoute(pulls, pr)
           u == AbsoluteUrl(crab.base, route)
       IN /\ mreqs' = <<Request(u.url, route, None)>>
          /\ IF u.ok
             THEN mpc' = "awaiting" /\ mres' = NoResult
             ELSE mpc' = "done" /\ mres' = ErrUrl(u.err)
    /\ UNCHANGED <<clientVars, builders, given, out, sendVars>>

\* is_merged up to the await: the route, the absolute URL, the request handed over
IsMerged(pr) ==
    /\ mpc \in {"idle", "done"}
    /\ mpr' = pr
    /\ mresp' = None
    /\ LET route == MergeRoute(pulls, pr)
           u == AbsoluteUrl(crab.base, route)
       IN IF u.ok
          THEN /\ mreqs' = <<Request(u.url, route, None)>>
               /\ mpc' = "awaiting"
               /\ mres' = NoResult
          ELSE /\ mreqs' = <<>>
               /\ mpc' = "done"
               /\ mres' = ErrUrl(u.err)
    /\ UNCHANGED <<clientVars, builders, given, out, sendVars>>

\* is_merged taking every success status for merged
IsMergedResponseSuccess(resp) ==
    /\ mpc = "awaiting"
    /\ mresp' = Some(resp)
    /\ mres' = OkBool(resp.status >= 200 /\ resp.status < 300)
    /\ mpc' = "done"
    /\ UNCHANGED <<clientVars, builders, given, out, sendVars, mpr, mreqs>>

\* the transport answers: the result is whether the status is 204
IsMergedResponse(resp) ==
    /\ mpc = "awaiting"
    /\ mresp' = Some(resp)
    /\ mres' = OkBool(resp.status = NoContent)
    /\ mpc' = "done"
    /\ UNCHANGED <<clientVars, builders, given, out, sendVars, mpr, mreqs>>

\* is_merged asking once more after a transport failure
IsMergedRetries ==
    /\ mpc = "awaiting"
    /\ IF Len(mreqs) < 2
       THEN mreqs' = Append(mreqs, mreqs[1]) /\ mpc' = "awaiting" /\ mres' = mres
       ELSE mreqs' = mreqs /\ mpc' = "done" /\ mres' = ErrHttp("transport")
    /\ UNCHANGED <<clientVars, builders, given, out, sendVars, mpr, mresp>>

\* is_merged taking a transport failure for not merged
IsMergedSwallows ==
    /\ mpc = "awaiting"
    /\ mres' = OkBool(FALSE)
    /\ mpc' = "done"
    /\ UNCHANGED <<clientVars, builders, given, out, sendVars, mpr, mreqs, mresp>>

\* the transport fails: the failure is the result
IsMergedTransportError ==
    /\ mpc = "awaiting"
    /\ mres' = ErrHttp("transport")
    /\ mpc' = "done"
    /\ UNCHANGED <<clientVars, builders, given, out, sendVars, mpr, mreqs, mresp>>

-----------------------------------------------------------------------------
(* Specifications *)

DefaultIdentity == [owner |-> "rust-lang", repo |-> "rust"]

InitState ==
    /\ builders = [b \in BuilderIds |-> NewBuilder(issues)]
    /\ phase = [b \in BuilderIds |-> "building"]
    /\ given = [b \in BuilderIds |-> NothingGiven]
    /\ out = [b \in BuilderIds |-> <<>>]
    /\ sreqs = [b \in BuilderIds |-> <<>>]
    /\ sresp = [b \in BuilderIds |-> None]
    /\ sres = [b \in BuilderIds |-> NoResult]
    /\ mpc = "idle"
    /\ mpr = 0
    /\ mreqs = <<>>
    /\ mresp = None
    /\ mres = NoResult

\* the default client and the handler of the serialize test
InitBuilder ==
    /\ crab = [base |-> GoodBase]
    /\ issues = DefaultIdentity
    /\ pulls = DefaultIdentity
    /\ InitState

\* any client, any issue handler
InitIssues ==
    /\ crab \in [base : Bases]
    /\ issues \in Identities
    /\ pulls = DefaultIdentity
    /\ InitState

\* any client, any issue handler, any pull request handler
InitCalls ==
    /\ crab \in [base : Bases]
    /\ issues \in Identities
    /\ pulls \in Identities
    /\ InitState

Setter(b) ==
    \/ \E x \in States : State(b, x)
    \/ \E x \in MilestoneInputs : Milestone(b, x)
    \/ \E x \in AssigneeInputs : Assignee(b, x)
    \/ \E x \in CreatorInputs : Creator(b, x)
    \/ \E x \in MentionedInputs : Mentioned(b, x)
    \/ \E x \in LabelsInputs : Labels(b, x)
    \/ \E x \in Sorts : Sort(b, x)
    \/ \E x \in Directions : Direction(b, x)
    \/ \E x \in PerPageInputs : PerPage(b, x)
    \/ \E x \in PageInputs : Page(b, x)

\* the fields of all builders that a setter has been called for
FieldsSet == {bf \in BuilderIds \X DOMAIN NothingGiven : given[bf[1]][bf[2]] # None}

CanSet == Cardinality(FieldsSet) < MaxSetterCalls
CanFilter == Cardinality(FieldsSet) < MaxFilters

\* one builder, any sequence of setter calls, serialized by reference
NextBuilder ==
    \/ Setter(1)
    \/ ToValue(1)

SpecBuilder == InitBuilder /\ [][NextBuilder]_vars

\* two builders of one handler, their setter and send calls interleaved: at most
\* MaxSetterCalls fields set, each send answered with a page or a transport failure
NextTwo ==
    \/ \E b \in BuilderIds : \E x \in States : CanSet /\ State(b, x)
    \/ \E b \in BuilderIds : \E x \in MilestoneInputs : CanSet /\ Milestone(b, x)
    \/ \E b \in BuilderIds : \E x \in AssigneeInputs : CanSet /\ Assignee(b, x)
    \/ \E b \in BuilderIds : \E x \in CreatorInputs : CanSet /\ Creator(b, x)
    \/ \E b \in BuilderIds : \E x \in MentionedInputs : CanSet /\ Mentioned(b, x)
    \/ \E b \in BuilderIds : \E x \in LabelsInputs : CanSet /\ Labels(b, x)
    \/ \E b \in BuilderIds : \E x \in Sorts : CanSet /\ Sort(b, x)
    \/ \E b \in BuilderIds : \E x \in Directions : CanSet /\ Direction(b, x)
    \/ \E b \in BuilderIds : \E x \in PerPageInputs : CanSet /\ PerPage(b, x)
    \/ \E b \in BuilderIds : \E x \in PageInputs : CanSet /\ Page(b, x)
    \/ \E b \in BuilderIds : Send(b)
    \/ \E b \in BuilderIds : SendResponse(b, PageResponse)
    \/ \E b \in BuilderIds : SendTransportError(b)

SpecTwo == InitIssues /\ [][NextTwo]_vars

\* a list-issues request and merge checks, in any interleaving: at most MaxFilters
\* fields set on the builder, every answer and every failure of the transport
NextCalls ==
    \/ \E x \in States : CanFilter /\ State(1, x)
    \/ \E x \in MilestoneInputs : CanFilter /\ Milestone(1, x)
    \/ \E x \in AssigneeInputs : CanFilter /\ Assignee(1, x)
    \/ \E x \in CreatorInputs : CanFilter /\ Creator(1, x)
    \/ \E x \in MentionedInputs : CanFilter /\ Mentioned(1, x)
    \/ \E x \in LabelsInputs : CanFilter /\ Labels(1, x)
    \/ \E x \in Sorts : CanFilter /\ Sort(1, x)
    \/ \E x \in Directions : CanFilter /\ Direction(1, x)
    \/ \E x \in PerPageInputs : CanFilter /\ PerPage(1, x)
    \/ \E x \in PageInputs : CanFilter /\ Page(1, x)
    \/ Send(1)
    \/ \E resp \in Responses : SendResponse(1, resp)
    \/ SendTransportError(1)
    \/ \E pr \in PullNumbers : IsMerged(pr)
    \/ \E resp \in Responses : IsMergedResponse(resp)
    \/ IsMergedTransportError

SpecCalls == InitCalls /\ [][NextCalls]_vars

-----------------------------------------------------------------------------
(* The serialized query: SpecBuilder *)

Fields == DOMAIN NothingGiven
GivenFields(b) == {f \in Fields : given[b][f] # None}
Keys(o) == {o[k][1] : k \in 1..Len(o)}
Entries(o) == {o[k] : k \in 1..Len(o)}

\* C1 (as claimed): a serialized query has an entry for exactly the fields some
\* setter was called for, no entry for a field never set, not even a null one,
\* and no entry for the handler.
C1_OnlySetFieldsSerialized ==
    \A i \in 1..Len(out[1]) :
        /\ Keys(out[1][i]) = GivenFields(1)
        /\ \A k \in 1..Len(out[1][i]) : out[1][i][k][2] # JNull
        /\ "handler" \notin Keys(out[1][i])

TestGiven ==
    [state |-> Some("Open"), milestone |-> Some(Raw(1234)), assignee |-> Some(Raw("ferris")),
     creator |-> Some("octocrab"), mentioned |-> Some("octocat"),
     labels |-> Some(<<"help wanted", "good first issue">>), sort |-> Some("Comments"),
     direction |-> Some("Ascending"), per_page |-> Some(100), page |-> Some(1)]

TestExpected ==
    { <<"state", JStr("open")>>, <<"milestone", JNum(1234)>>, <<"assignee", JStr("ferris")>>,
      <<"creator", JStr("octocrab")>>, <<"mentioned", JStr("octocat")>>,
      <<"labels", JArr(<<"help wanted", "good first issue">>)>>,
      <<"sort", JStr("comments")>>, <<"direction", JStr("asc")>>,
      <<"per_page", JNum(100)>>, <<"page", JNum(1)>> }

\* C5: every field that was set is serialized under its declared name with the
\* canonical wire form of its value: Open as "open", Comments as "comments",
\* Ascending as "asc", a Filter of a value as the bare value, the wildcard Filter
\* as "*", the none Filter as "none", the labels as the list in the given order,
\* per_page and page as their numbers; the ten fields of the test give the ten
\* entries the test expects, and no others.
C5_CanonicalWireForms ==
    \A i \in 1..Len(out[1]) :
        LET o == Entries(out[1][i])
            g == given[1]
        IN /\ g.state = Some("Open") => <<"state", JStr("open")>> \in o
           /\ g.state = Some("Closed") => <<"state", JStr("closed")>> \in o
           /\ g.milestone = Some(Raw(1234)) => <<"milestone", JNum(1234)>> \in o
           /\ g.milestone = Some(AsFilter(FilterAny(0))) => <<"milestone", JStr("*")>> \in o
           /\ g.milestone = Some(AsFilter(FilterNone(0))) => <<"milestone", JStr("none")>> \in o
           /\ g.assignee = Some(Raw("ferris")) => <<"assignee", JStr("ferris")>> \in o
           /\ g.assignee = Some(AsFilter(FilterAny(""))) => <<"assignee", JStr("*")>> \in o
           /\ g.assignee = Some(AsFilter(FilterNone(""))) => <<"assignee", JStr("none")>> \in o
           /\ g.creator = Some("octocrab") => <<"creator", JStr("octocrab")>> \in o
           /\ g.mentioned = Some("octocat") => <<"mentioned", JStr("octocat")>> \in o
           /\ g.labels = Some(<<"help wanted", "good first issue">>)
                => <<"labels", JArr(<<"help wanted", "good first issue">>)>> \in o
           /\ g.sort = Some("Comments") => <<"sort", JStr("comments")>> \in o
           /\ g.direction = Some("Ascending") => <<"direction", JStr("asc")>> \in o
           /\ g.per_page = Some(100) => <<"per_page", JNum(100)>> \in o
           /\ \A p \in PageInputs : g.page = Some(p) => <<"page", JNum(p)>> \in o
           /\ g = TestGiven => o = TestExpected /\ Len(out[1][i]) = 10

\* the ten fields of the test were set and the builder was serialized
C5_Witness == out[1] # <<>> /\ given[1] = TestGiven

DeclaredOrder ==
    <<"state", "milestone", "assignee", "creator", "mentioned", "labels", "sort",
      "direction", "per_page", "page">>

\* the wire form of the last value the caller passed for a field, null for none
WireOf(g, f) ==
    IF g[f] = None THEN JNull
    ELSE CASE f = "state" -> SerState(g[f][1])
           [] f = "milestone" -> SerFilterU64(IntoFilter(g[f][1]))
           [] f = "assignee" -> SerFilterStr(IntoFilter(g[f][1]))
           [] f = "creator" -> JStr(g[f][1])
           [] f = "mentioned" -> JStr(g[f][1])
           [] f = "labels" -> JArr(g[f][1])
           [] f = "sort" -> SerSort(g[f][1])
           [] f = "direction" -> SerDirection(g[f][1])
           [] f = "per_page" -> JNum(g[f][1])
           [] f = "page" -> JNum(g[f][1])

\* C9: the serialized query is a function of the current field values only: two
\* serializations of an unmodified builder are equal, the fields come in the
\* order of their declaration, and the entry of each field is fixed by the last
\* value passed to its setter, whatever calls came before and in whatever order.
C9_FunctionOfFieldValues ==
    /\ \A i, j \in 1..Len(out[1]) : out[1][i] = out[1][j]
    /\ \A i \in 1..Len(out[1]) :
          /\ [k \in 1..Len(out[1][i]) |-> out[1][i][k][1]] = DeclaredOrder
          /\ \A k \in 1..Len(out[1][i]) :
                out[1][i][k][2] = WireOf(given[1], DeclaredOrder[k])

\* a builder with state and page set, others not, was serialized twice
C9_Witness ==
    /\ Len(out[1]) = 2
    /\ given[1].state = Some("Closed")
    /\ given[1].page # None
    /\ given[1].labels = None

-----------------------------------------------------------------------------
(* Two builders of one handler: SpecTwo *)

\* C10: a setter assigns only its own field of its own builder: a step changes a
\* field of a builder only when that field's setter was called on that builder,
\* and never the handler; and every entry of a query a builder has sent is null
\* or the wire form of the value set on that same builder.
C10_SettersAssignOwnField ==
    /\ [][\A b \in BuilderIds :
            /\ builders'[b].handler = builders[b].handler
            /\ \A f \in Fields :
                  builders'[b][f] # builders[b][f] => given'[b][f] # given[b][f]]_vars
    /\ [](\A b \in BuilderIds : \A i \in 1..Len(sreqs[b]) :
            LET q == sreqs[b][i].query[1]
            IN \A k \in 1..Len(q) : q[k][2] \in {JNull, WireOf(given[b], q[k][1])})

\* both builders were sent, each with a field the other does not have
C10_Witness ==
    /\ sreqs[1] # <<>> /\ sreqs[2] # <<>>
    /\ given[1].state # None /\ given[2].state = None
    /\ given[2].mentioned # None /\ given[1].mentioned = None

-----------------------------------------------------------------------------
(* The requests and their results: SpecCalls *)

UrlOk(route) == AbsoluteUrl(crab.base, route).ok
MergeUrlOk == UrlOk(MergeRoute(pulls, mpr))
SendUrlOk == UrlOk(IssuesRoute(issues))

\* C2: whatever status the transport returns, is_merged returns Ok(true) if the
\* status is 204 and Ok(false) if it is any other, whatever the body, and never
\* a RemoteError or a DecodeError.
C2_MergedIffNoContent ==
    (mpc = "done" /\ mresp # None) =>
        /\ mres = OkBool(mresp[1].status = 204)
        /\ mres.kind \notin {"GitHub", "Json"}

\* the transport answered 204 and is_merged returned Ok(true)
C2_Witness == mpc = "done" /\ mresp # None /\ mresp[1].status = 204 /\ mres.bool

\* C3: when the absolute URL cannot be built, the call returns a UrlError and no
\* request of that call reaches the transport; a call that returned a UrlError
\* has handed nothing to the transport.
C3_UrlErrorBeforeTransport ==
    /\ (mpc # "idle" /\ ~MergeUrlOk) => (mpc = "done" /\ mres.kind = "Url" /\ mreqs = <<>>)
    /\ mres.kind = "Url" => mreqs = <<>>
    /\ (phase[1] # "building" /\ ~SendUrlOk) =>
            (phase[1] = "done" /\ sres[1].kind = "Url" /\ sreqs[1] = <<>>)

\* is_merged was called on a client whose base URL cannot be joined with a route
C3_Witness == mpc = "done" /\ ~MergeUrlOk /\ mres.kind = "Url"

\* C4: when the body of a response does not decode into the expected result, the
\* call returns the Json error, which carries the decode failure and the very body
\* that was received; a Json error is returned for no other reason.
C4_DecodeErrorKeepsBody ==
    (phase[1] = "done" /\ sresp[1] # None) =>
        LET resp == sresp[1][1]
            remote == resp.status >= 400 /\ resp.body.shape = "error"
        IN /\ (resp.body.shape # "page" /\ ~remote) =>
                 /\ sres[1].kind = "Json"
                 /\ sres[1].json = resp.body
                 /\ sres[1].source # ""
           /\ sres[1].kind = "Json" => (resp.body.shape # "page" /\ sres[1].json = resp.body)

\* a body that is no page came back and send returned the Json error
C4_Witness ==
    /\ phase[1] = "done" /\ sresp[1] # None
    /\ sresp[1][1].body.shape = "other"
    /\ sres[1].kind = "Json"

\* C6 (as claimed): send requests /{owner}/{repo}/issues and is_merged requests
\* /{owner}/{repo}/pulls/{id}/merge.
C6_RoutesWithoutPrefix ==
    /\ \A i \in 1..Len(sreqs[1]) :
          sreqs[1][i].route = "/" \o issues.owner \o "/" \o issues.repo \o "/issues"
    /\ \A i \in 1..Len(mreqs) :
          mreqs[i].route = "/" \o pulls.owner \o "/" \o pulls.repo \o "/pulls/"
                              \o Decimal(mpr) \o "/merge"

\* C6 (amended): send requests GET /repos/{owner}/{repo}/issues and is_merged
\* requests GET /repos/{owner}/{repo}/pulls/{id}/merge, built from the handler's
\* owner and repo and the number alone, whatever fields the builder has set.
C6_RoutesUnderRepos ==
    /\ \A i \in 1..Len(sreqs[1]) :
          /\ sreqs[1][i].method = "GET"
          /\ sreqs[1][i].route = "/repos/" \o issues.owner \o "/" \o issues.repo \o "/issues"
          /\ issues = [owner |-> "rust-lang", repo |-> "rust"]
                => sreqs[1][i].route = "/repos/rust-lang/rust/issues"
    /\ \A i \in 1..Len(mreqs) :
          /\ mreqs[i].method = "GET"
          /\ mreqs[i].route = "/repos/" \o pulls.owner \o "/" \o pulls.repo \o "/pulls/"
                                 \o Decimal(mpr) \o "/merge"
          /\ (pulls = [owner |-> "octocat", repo |-> "hello"] /\ mpr = 101)
                => mreqs[i].route = "/repos/octocat/hello/pulls/101/merge"

\* a builder with a field set was sent, and pull request 101 was checked
C6_Witness ==
    /\ sreqs[1] # <<>> /\ GivenFields(1) # {}
    /\ mreqs # <<>> /\ mpr = 101

\* C7: a call of send or of is_merged hands exactly one request to the transport
\* when the URL could be built and none when it could not, and no more than one
\* whatever the transport answers or however it fails.
C7_OneRequestPerCall ==
    /\ phase[1] = "building" => sreqs[1] = <<>>
    /\ phase[1] # "building" => Len(sreqs[1]) = (IF SendUrlOk THEN 1 ELSE 0)
    /\ mpc # "idle" => Len(mreqs) = (IF MergeUrlOk THEN 1 ELSE 0)

\* both calls are over, one after a transport failure, one after an answer
C7_Witness ==
    /\ mpc = "done" /\ mres.kind = "Http" /\ Len(mreqs) = 1
    /\ phase[1] = "done" /\ sresp[1] # None /\ Len(sreqs[1]) = 1

\* C8: a failure is returned in the kind it was detected in and never as a
\* success: a URL failure as the Url error, a transport failure as the Http
\* error; a call that got an answer ends in a result or in the one error of the
\* decoding, and every call ends in exactly one of them.
C8_FailuresReturnedInKind ==
    /\ mpc = "done" =>
          IF ~MergeUrlOk THEN mres.kind = "Url"
          ELSE IF mresp = None THEN mres.kind = "Http"
          ELSE mres.kind = "Ok"
    /\ phase[1] = "done" =>
          IF ~SendUrlOk THEN sres[1].kind = "Url"
          ELSE IF sresp[1] = None THEN sres[1].kind = "Http"
          ELSE \/ sres[1] = OkPage(sresp[1][1].body) /\ sresp[1][1].body.shape = "page"
               \/ sres[1].kind \in {"Json", "GitHub"}
    /\ mpc # "done" => mres = NoResult
    /\ phase[1] # "done" => sres[1] = NoResult

\* the transport failed under is_merged and under send, and both calls are over
C8_Witness ==
    /\ mpc = "done" /\ mres.kind = "Http"
    /\ phase[1] = "done" /\ sres[1].kind = "Http"

====
